---- MODULE Spec2Model ----
(***************************************************************************)
(* Model of lib/index.js of @metalsmith/permalinks 2.3.0: the permalinks   *)
(* plugin, which renames every HTML file of a Metalsmith file set to       *)
(* <permalink>/<indexFile>, carries the non-HTML "family" files along and  *)
(* reports completion through the done callback.                           *)
(*                                                                         *)
(* Encoding of JavaScript values.  A string is a sequence of tokens (a     *)
(* token is a TLA+ string standing for one or more characters that the     *)
(* program never splits): 'post/image.png' is <<"post","/","image",".png">>*)
(* String operations (indexOf, slice, replace, path.join ...) are computed *)
(* on these sequences as the library computes them on characters.          *)
(* undefined and false are the reserved one-token values Undefined and     *)
(* JSFalse; a Date is <<"#date", year, month, day>>.  An object is a       *)
(* function from its own property names to values; a property that is not  *)
(* in the DOMAIN is absent.                                                *)
(***************************************************************************)
EXTENDS Integers, Sequences, FiniteSets, TLC

Undefined == <<"#undefined">>
JSFalse == <<"#false">>
JSTrue == <<"#true">>
Null == <<>>

\* o[key] of JavaScript: undefined when the property is absent
Get(o, key) == IF key \in DOMAIN o THEN o[key] ELSE Undefined

\* !val of JavaScript ('' and null share the empty sequence)
Falsy(v) == v \in {Undefined, JSFalse, Null}

\* obj[key] = val on a function-encoded object
Put(o, key, val) == [k \in DOMAIN o \cup {key} |-> IF k = key THEN val ELSE o[k]]

\* delete obj[key]
Del(o, key) == [k \in DOMAIN o \ {key} |-> o[k]]

\* Object.assign({}, a, b): own properties of a, overwritten by those of b
ObjectAssign(a, b) == [k \in DOMAIN a \cup DOMAIN b |-> IF k \in DOMAIN b THEN b[k] ELSE a[k]]

\* {}
NoProps == [k \in {} |-> <<>>]

Range(s) == {s[i] : i \in DOMAIN s}

RECURSIVE Concat(_)
Concat(ss) == IF ss = <<>> THEN <<>> ELSE Head(ss) \o Concat(Tail(ss))

----------------------------------------------------------------------------
(* String primitives *)

\* s.slice(n)
Slice(s, n) == IF n >= Len(s) THEN <<>> ELSE SubSeq(s, n + 1, Len(s))

\* does t occur in s at (1-based) position i
OccursAt(s, t, i) == /\ i >= 1
                     /\ i + Len(t) - 1 <= Len(s)
                     /\ SubSeq(s, i, i + Len(t) - 1) = t

\* s.indexOf(t), 0-based, -1 when t does not occur
IndexOf(s, t) ==
  LET hits == {i \in 1..(Len(s) + 1) : OccursAt(s, t, i)}
  IN IF hits = {} THEN -1 ELSE (CHOOSE i \in hits : \A j \in hits : i <= j) - 1

\* s.includes(t)
Includes(s, t) == IndexOf(s, t) # -1

\* s.replace(from, to) with a string pattern: the first occurrence only
StringReplace(s, from, to) ==
  LET i == IndexOf(s, from)
  IN IF i = -1 THEN s
     ELSE SubSeq(s, 1, i) \o to \o Slice(s, i + Len(from))

\* s.replace(/\\/g, '/')
ReplaceBackslashes(s) == [i \in DOMAIN s |-> IF s[i] = "\\" THEN "/" ELSE s[i]]

----------------------------------------------------------------------------
(* The path module (POSIX flavour) *)

ExtTokens == {".html", ".png", ".css"}

\* the segments of a path between its "/" separators
Segments(p) ==
  LET seps == SelectSeq([i \in 1..Len(p) |-> i], LAMBDA i : p[i] = "/")
      cuts == <<0>> \o seps \o <<Len(p) + 1>>
  IN [k \in 1..(Len(cuts) - 1) |-> SubSeq(p, cuts[k] + 1, cuts[k + 1] - 1)]

RECURSIVE JoinSegments(_)
JoinSegments(segs) ==
  IF segs = <<>> THEN <<>>
  ELSE IF Len(segs) = 1 THEN segs[1]
  ELSE segs[1] \o <<"/">> \o JoinSegments(Tail(segs))

\* path.normalize: drops empty and "." segments, keeps a leading and a
\* trailing separator, '.' for the empty path
PathNormalize(p) ==
  IF p = <<>> THEN <<".">>
  ELSE LET abs == p[1] = "/"
           trailing == p[Len(p)] = "/"
           kept == SelectSeq(Segments(p), LAMBDA g : g # <<>> /\ g # <<".">>)
           body == JoinSegments(kept)
           rel == IF body = <<>> /\ ~abs THEN <<".">>
                  ELSE IF body # <<>> /\ trailing THEN body \o <<"/">>
                  ELSE body
       IN IF abs THEN <<"/">> \o rel ELSE rel

\* path.join(...parts) and path.posix.join(...parts)
PathJoin(parts) ==
  LET used == SelectSeq(parts, LAMBDA g : g # <<>>)
  IN IF used = <<>> THEN <<".">> ELSE PathNormalize(JoinSegments(used))

\* the last segment of a path
LastSegment(p) == LET segs == Segments(p) IN segs[Len(segs)]

\* path.extname
PathExtname(p) ==
  LET b == LastSegment(p)
  IN IF Len(b) >= 2 /\ b[Len(b)] \in ExtTokens THEN <<b[Len(b)]>> ELSE <<>>

\* path.basename(p, ext)
PathBasename(p, ext) ==
  LET b == LastSegment(p)
  IN IF ext # <<>> /\ Len(b) > Len(ext) /\ Slice(b, Len(b) - Len(ext)) = ext
     THEN SubSeq(b, 1, Len(b) - Len(ext))
     ELSE b

\* path.dirname
PathDirname(p) ==
  LET segs == Segments(p)
  IN IF Len(segs) = 1 THEN <<".">>
     ELSE JoinSegments(SubSeq(segs, 1, Len(segs) - 1))

----------------------------------------------------------------------------
(* JavaScript objects whose key order is observable (for..in and          *)
(* Object.keys follow insertion order): the keys in insertion order and    *)
(* the mapping.                                                            *)

EmptyObject == [keys |-> <<>>, val |-> NoProps]

Has(m, k) == k \in DOMAIN m.val

\* m[k] = v: an existing key keeps its place, a new key goes last
SetKey(m, k, v) ==
  [keys |-> IF Has(m, k) THEN m.keys ELSE Append(m.keys, k),
   val |-> Put(m.val, k, v)]

\* delete m[k]
DeleteKey(m, k) ==
  [keys |-> SelectSeq(m.keys, LAMBDA x : x # k), val |-> Del(m.val, k)]

----------------------------------------------------------------------------
(* Helpers of lib/index.js *)

SlugLower == [t \in {"Foo", "Bar", "Hello", "World"} |->
                 CASE t = "Foo" -> "foo"
                   [] t = "Bar" -> "bar"
                   [] t = "Hello" -> "hello"
                   [] t = "World" -> "world"]

\* slug(text, options): slugify with { lower: true } overlaid by the options;
\* the characters the remove option matches are dropped (the regular
\* expression is encoded by the characters it matches), a space becomes the
\* replacement character, letters are lower-cased
slug(text, o) ==
  LET replacement == IF "replacement" \in DOMAIN o THEN o["replacement"] ELSE <<"-">>
      lower == IF "lower" \in DOMAIN o THEN o["lower"] # JSFalse ELSE TRUE
      removed == IF "remove" \in DOMAIN o THEN Range(o["remove"]) ELSE {}
      one(t) == IF t \in removed THEN <<>>
                ELSE IF t = " " THEN replacement
                ELSE IF lower /\ t \in DOMAIN SlugLower THEN <<SlugLower[t]>>
                ELSE <<t>>
  IN Concat([i \in DOMAIN text |-> one(text[i])])

\* format(string): the closure is encoded by the format string it captured
format(string) == <<"#format">> \o string

IsDate(v) == Len(v) = 4 /\ v[1] = "#date"

\* format(string)(date): moment(date).utc().format(string)
ApplyFormat(formatter, date) ==
  LET fmt == Tail(formatter)
      one(t) == CASE t = "YYYY" -> date[2]
                  [] t = "MM" -> date[3]
                  [] t = "DD" -> date[4]
                  [] OTHER -> t
  IN [i \in DOMAIN fmt |-> one(fmt[i])]

IsString(v) == v # <<>> => (v[1] \notin {"#undefined", "#false", "#true", "#date", "#format"})

\* html(str)
html(str) == PathExtname(str) = <<".html">>

\* normalize(options), for an options object
normalize(options) ==
  LET withDate == Put(options, "date",
                      IF "date" \in DOMAIN options /\ IsString(options["date"])
                      THEN format(options["date"])
                      ELSE format(<<"YYYY", "/", "MM", "/", "DD">>))
      withRelative == Put(withDate, "relative",
                          IF "relative" \in DOMAIN options THEN options["relative"]
                          ELSE JSTrue)
  IN Put(withRelative, "linksets",
         IF "linksets" \in DOMAIN options THEN options["linksets"] ELSE <<>>)

\* family(file, files): the non-HTML files whose key starts with the
\* directory of file, keyed by the rest of their key
family(file, files) ==
  LET d == PathDirname(file)
      dir == IF d = <<".">> THEN <<>> ELSE d
      keep(key) == key # file /\ IndexOf(key, dir) = 0 /\ ~html(key)
      found == SelectSeq(files.keys, keep)
  IN [keys |-> [i \in DOMAIN found |-> Slice(found[i], Len(dir))],
      val |-> [rel \in {Slice(found[i], Len(dir)) : i \in DOMAIN found} |->
                 files.val[dir \o rel]]]

\* folder(file, files): the non-HTML files inside the directory named after
\* file, keyed by their path inside it
folder(file, files) ==
  LET bn == PathBasename(file, PathExtname(file))
      d == PathDirname(file)
      dir == IF d = <<".">> THEN <<>> ELSE d
      sharedPath == PathJoin(<<dir, bn, <<"/">> >>)
      keep(key) == key # file /\ IndexOf(key, sharedPath) = 0 /\ ~html(key)
      found == SelectSeq(files.keys, keep)
  IN [keys |-> [i \in DOMAIN found |-> Slice(found[i], Len(sharedPath))],
      val |-> [rel \in {Slice(found[i], Len(sharedPath)) : i \in DOMAIN found} |->
                 files.val[sharedPath \o rel]]]

\* resolve(str): the permalink derived from the path of a file
resolve(str) ==
  LET base == PathBasename(str, PathExtname(str))
      ret == PathDirname(str)
  IN IF base # <<"index">> THEN ReplaceBackslashes(PathJoin(<<ret, base>>)) ELSE ret

ParamName == [t \in {":title", ":date"} |-> IF t = ":title" THEN "title" ELSE "date"]

\* params(pattern): the names after each ':' of the pattern
params(pattern) ==
  LET marks == SelectSeq(pattern, LAMBDA t : t \in DOMAIN ParamName)
  IN [i \in DOMAIN marks |-> ParamName[marks[i]]]

\* replace without the return of null for a parameter that has no value:
\* such a parameter is replaced by the empty string
replaceKeepsMissing(pattern, data, options) ==
  IF Falsy(pattern) THEN Null
  ELSE LET value(key) == IF Falsy(Get(data, key)) THEN <<>>
                         ELSE IF IsDate(data[key])
                         THEN ApplyFormat(Get(options, "date"), data[key])
                         ELSE slug(data[key], IF "slug" \in DOMAIN options
                                                THEN options["slug"] ELSE NoProps)
           one(t) == IF t \in DOMAIN ParamName THEN value(ParamName[t]) ELSE <<t>>
       IN Concat([i \in DOMAIN pattern |-> one(pattern[i])])

\* replace(pattern, data, options): null (the empty value) when there is no
\* pattern or a parameter has no value in data
replace(pattern, data, options) ==
  IF Falsy(pattern) THEN Null
  ELSE LET keys == params(pattern)
           missing(key) == Falsy(Get(data, key))
           value(key) == IF IsDate(data[key])
                         THEN ApplyFormat(Get(options, "date"), data[key])
                         ELSE slug(data[key], IF "slug" \in DOMAIN options
                                                THEN options["slug"] ELSE NoProps)
           one(t) == IF t \in DOMAIN ParamName THEN value(ParamName[t]) ELSE <<t>>
       IN IF \E i \in DOMAIN keys : missing(keys[i]) THEN Null
          ELSE Concat([i \in DOMAIN pattern |-> one(pattern[i])])

\* relink(data, moved): for every key `to` of moved, in order, replaces the
\* first occurrence of moved[to] in the contents by `to`
RECURSIVE relinkContent(_, _, _)
relinkContent(content, moved, i) ==
  IF i > Len(moved.keys) THEN content
  ELSE LET to == moved.keys[i]
           from == moved.val[to]
       IN relinkContent(StringReplace(content, from, to), moved, i + 1)

relink(data, moved) == Put(data, "contents", relinkContent(data["contents"], moved, 1))

----------------------------------------------------------------------------
(* permalinks(options): the closure of the plugin *)

\* the linkset flagged isDefault, else the options themselves
defaultLinkset(options) ==
  LET linksets == options["linksets"]
      flagged == SelectSeq(linksets, LAMBDA ls : ~Falsy(Get(ls, "isDefault")))
  IN IF flagged = <<>> THEN options ELSE flagged[1]

\* values that have an indexOf method: strings and arrays
HasIndexOf(v) == ~Falsy(v) /\ v[1] \notin {"#true", "#date", "#format"}

\* the predicate of linksets.find with the reduce started at false and
\* stopped at the first key that is satisfied: one key of ls.match is enough
linksetMatchesAny(ls, file) ==
  \E key \in DOMAIN ls["match"] :
     \/ Get(file, key) = ls["match"][key]
     \/ HasIndexOf(Get(file, key)) /\ Includes(Get(file, key), ls["match"][key])

\* the predicate of linksets.find in findLinkset: every key of ls.match is
\* equal to, or included in, the field of the file
linksetMatches(ls, file) ==
  \A key \in DOMAIN ls["match"] :
     \/ Get(file, key) = ls["match"][key]
     \/ HasIndexOf(Get(file, key)) /\ Includes(Get(file, key), ls["match"][key])

\* findLinkset(file)
findLinkset(file, options) ==
  LET found == SelectSeq(options["linksets"], LAMBDA ls : linksetMatches(ls, file))
  IN IF found = <<>> THEN defaultLinkset(options) ELSE found[1]

ClashMessage(target) == <<"Permalinks: Clash with another target file ">> \o target

\* defaultUniquePath with the loop condition dropped: the first target is
\* returned whether or not it is free
uniqueLoopNoRetry(targetPath, filesObj, options, counter) ==
  LET indexFile == IF Falsy(Get(options, "indexFile")) THEN <<"index", ".html">>
                   ELSE options["indexFile"]
      target == PathJoin(<<targetPath, indexFile>>)
  IN IF ~Falsy(Get(options, "duplicatesFail")) /\ Has(filesObj, target)
     THEN [clash |-> TRUE, target |-> target]
     ELSE [clash |-> FALSE, target |-> target]

\* the do..while of defaultUniquePath from the given counter on: the target,
\* and whether done was called with the clash
RECURSIVE uniqueLoop(_, _, _, _)
uniqueLoop(targetPath, filesObj, options, counter) ==
  LET postfix == IF counter = 0 THEN <<>> ELSE <<"-" \o ToString(counter)>>
      indexFile == IF Falsy(Get(options, "indexFile")) THEN <<"index", ".html">>
                   ELSE options["indexFile"]
      target == PathJoin(<<targetPath \o postfix, indexFile>>)
  IN IF ~Falsy(Get(options, "duplicatesFail")) /\ Has(filesObj, target)
     THEN [clash |-> TRUE, target |-> target]
     ELSE IF ~Falsy(Get(options, "unique")) /\ Has(filesObj, target)
     THEN uniqueLoop(targetPath, filesObj, options, counter + 1)
     ELSE [clash |-> FALSE, target |-> target]

\* defaultUniquePath(targetPath, filesObj, filename, opts): the returned key
\* and the calls of done it made.  On a clash it returns what done returns,
\* undefined, which the caller uses as the property name 'undefined'.
defaultUniquePath(targetPath, filesObj, options) ==
  LET r == uniqueLoop(targetPath, filesObj, options, 0)
  IN IF r.clash THEN [out |-> <<"undefined">>, calls |-> <<ClashMessage(r.target)>>]
     ELSE [out |-> r.target, calls |-> <<>>]

\* lines 350-360: moved[key] = rel and dupes[rel] = fam[key] for every key of fam
RECURSIVE trackFamily(_, _, _, _)
trackFamily(fam, ppath, acc, i) ==
  IF i > Len(fam.keys) THEN acc
  ELSE LET key == fam.keys[i]
           rel == PathJoin(<<ppath, key>>)
       IN trackFamily(fam, ppath,
                      [dupes |-> SetKey(acc.dupes, rel, fam.val[key]),
                       moved |-> SetKey(acc.moved, key, rel)],
                      i + 1)

\* the effective linkset of a file (line 323)
effectiveLinkset(data, options) ==
  ObjectAssign(findLinkset(data, options), defaultLinkset(options))

\* the candidate permalink with the permalink override used only when the
\* pattern gives nothing
candidatePathPatternFirst(file, data, linkset) ==
  LET fromPattern == replace(Get(linkset, "pattern"), data, linkset)
  IN IF ~Falsy(fromPattern) THEN fromPattern
     ELSE IF "permalink" \in DOMAIN data /\ data["permalink"] # JSFalse
     THEN data["permalink"]
     ELSE resolve(file)

\* the candidate permalink of a file (lines 326-346)
candidatePath(file, data, linkset) ==
  LET fromPattern == replace(Get(linkset, "pattern"), data, linkset)
      ppath == IF Falsy(fromPattern) THEN resolve(file) ELSE fromPattern
  IN IF "permalink" \in DOMAIN data /\ data["permalink"] # JSFalse
     THEN data["permalink"]
     ELSE ppath

\* the family of a file under the relative option of its linkset (lines 328-338)
locateFamily(file, files, linkset) ==
  CASE Get(linkset, "relative") = JSTrue -> family(file, files)
    [] Get(linkset, "relative") = <<"folder">> -> folder(file, files)
    [] OTHER -> EmptyObject

\* data.path (line 363)
pathField(ppath) == IF ppath = <<".">> THEN <<>> ELSE ReplaceBackslashes(ppath)

\* lines 367-368
commit(files, file, out, id) == SetKey(DeleteKey(files, file), out, id)

\* the fields of a linkset that configure the permalink of a file
ConfigFields == {"pattern", "date", "slug", "relative"}

configOf(linkset) == [k \in DOMAIN linkset \cap ConfigFields |-> linkset[k]]

\* The callback of Object.keys(files).forEach for one key (lines 316-369) on
\* st = [files, docs, dupes, doneCalls, hist]: files maps keys to document
\* identities, docs maps an identity to the object's properties, hist keeps,
\* per document, what each visit computed.
visitFile(st, file, options) ==
  LET id == st.files.val[file]
      data == st.docs[id]
  IN IF ~html(file) \/ Get(data, "permalink") = JSFalse THEN st
     ELSE
       LET linkset == effectiveLinkset(data, options)
           fam == locateFamily(file, st.files, linkset)
           ppath == candidatePath(file, data, linkset)
           unique == defaultUniquePath(ppath, st.files, options)
           tracked == trackFamily(fam, ppath,
                                  [dupes |-> st.dupes, moved |-> EmptyObject], 1)
           relinked == relink(Put(data, "path", pathField(ppath)), tracked.moved)
           visit == [file |-> file,
                     matched |-> configOf(findLinkset(data, options)),
                     linkset |-> configOf(linkset),
                     ppath |-> ppath,
                     out |-> unique.out,
                     clash |-> unique.calls # <<>>,
                     fam |-> fam,
                     moved |-> tracked.moved,
                     before |-> data["contents"]]
       IN [files |-> commit(st.files, file, unique.out, id),
           docs |-> [st.docs EXCEPT ![id] = relinked],
           dupes |-> tracked.dupes,
           doneCalls |-> st.doneCalls \o unique.calls,
           hist |-> [st.hist EXCEPT ![id] = Append(@, visit)]]

\* lines 373-375: files[dupe] = dupes[dupe] for every key of dupes
RECURSIVE mergeDupes(_, _, _)
mergeDupes(files, dupes, i) ==
  IF i > Len(dupes.keys) THEN files
  ELSE mergeDupes(SetKey(files, dupes.keys[i], dupes.val[dupes.keys[i]]), dupes, i + 1)

----------------------------------------------------------------------------
(* Inputs: the options given to permalinks() and the files given to the    *)
(* plugin                                                                  *)

\* the largest number of files of a file set
MaxFiles == 3

Str(t) == <<t>>

BlogLinkset ==
  [match |-> [collection |-> Str("blog"), lang |-> Str("en")],
   pattern |-> <<"blog", "/", ":title">>,
   relative |-> JSFalse,
   slug |-> [replacement |-> Str("_")]]

FallbackLinkset ==
  [isDefault |-> JSTrue, match |-> NoProps, pattern |-> Str(":title")]

BaseOptions ==
  { NoProps,
    [pattern |-> Str(":title"), slug |-> [remove |-> Str("?")]],
    [pattern |-> <<":date", "/", ":title">>, date |-> Str("YYYY")],
    [pattern |-> Str(":title"), linksets |-> <<BlogLinkset>>],
    [linksets |-> <<BlogLinkset, FallbackLinkset>>],
    [indexFile |-> <<"alt", ".html">>] }

RawOptions ==
  { ObjectAssign(ObjectAssign(ObjectAssign(base, u), d), r) :
      base \in BaseOptions,
      u \in {NoProps, [unique |-> JSTrue]},
      d \in {NoProps, [duplicatesFail |-> JSTrue]},
      r \in {NoProps, [relative |-> Str("folder")], [relative |-> JSFalse]} }

\* the documents a file set is made of: an identity, the key it is stored
\* under and its properties
Entries ==
  { [id |-> "about", key |-> <<"a", ".html">>,
     data |-> [title |-> Str("Foo"),
               collection |-> Str("blog"),
               contents |-> <<"a", "/", "pic", ".png", " ", "a", "/", "pic", ".png">>]],
    [id |-> "optout", key |-> <<"a", ".html">>,
     data |-> [title |-> Str("Foo"), permalink |-> JSFalse, contents |-> Str("text")]],
    [id |-> "aindex", key |-> <<"a", "/", "index", ".html">>,
     data |-> [title |-> Str("Foo"),
               contents |-> <<"/", "pic", ".png", " ", "foo", "/", "pic", ".png">>]],
    [id |-> "apic", key |-> <<"a", "/", "pic", ".png">>,
     data |-> [contents |-> Str("png")]],
    [id |-> "article", key |-> <<"post", "/", "article", ".html">>,
     data |-> [title |-> <<"Hello", " ", "World">>,
               date |-> <<"#date", "2020", "01", "02">>,
               collection |-> <<"news", "blog">>,
               lang |-> Str("en"),
               contents |-> <<"/", "image", ".png", " ", "/", "image", ".png">>]],
    [id |-> "image", key |-> <<"post", "/", "image", ".png">>,
     data |-> [contents |-> Str("png")]],
    [id |-> "custom", key |-> <<"b", ".html">>,
     data |-> [title |-> Str("Bar"), permalink |-> <<"a">>, contents |-> Str("text")]],
    [id |-> "home", key |-> <<"b", ".html">>,
     data |-> [title |-> Str("Bar"), permalink |-> Str("."), contents |-> Str("text")]],
    [id |-> "windows", key |-> <<"b", ".html">>,
     data |-> [permalink |-> <<"c", "\\", "d">>, contents |-> Str("text")]],
    [id |-> "aalt", key |-> <<"a", "/", "alt", ".html">>,
     data |-> [title |-> <<>>, contents |-> Str("text")]],
    [id |-> "rootpic", key |-> <<"pic", ".png">>,
     data |-> [contents |-> Str("png")]],
    [id |-> "bpic", key |-> <<"b", "/", "pic", ".png">>,
     data |-> [contents |-> Str("png")]],
    [id |-> "query", key |-> <<"q", ".html">>,
     data |-> [title |-> Str("?"), contents |-> Str("text")]] }

\* the sites the file sets are taken from: the documents of a file set all
\* belong to one of them
Sites ==
  { {e \in Entries : e.id \in {"about", "optout", "aindex", "apic", "article",
                               "image", "custom", "home", "windows"}},
    {e \in Entries : e.id \in {"about", "aalt", "apic", "rootpic"}},
    {e \in Entries : e.id \in {"custom", "bpic", "apic"}},
    {e \in Entries : e.id \in {"query", "aalt", "windows"}} }

\* the file sets: up to MaxFiles entries of one site with distinct keys, in
\* the order of insertion of their keys
FileLists ==
  UNION { { s \in [1..n -> site] : \A i, j \in 1..n : i # j => s[i].key # s[j].key } :
          site \in Sites, n \in 1..MaxFiles }

FilesOf(list) ==
  [keys |-> [i \in DOMAIN list |-> list[i].key],
   val |-> [k \in {list[i].key : i \in DOMAIN list} |->
              (CHOOSE e \in Range(list) : e.key = k).id]]

DocsOf(list) ==
  [id \in {list[i].id : i \in DOMAIN list} |->
     (CHOOSE e \in Range(list) : e.id = id).data]

----------------------------------------------------------------------------
(* The state machine *)

VARIABLES
  options,    \* the normalized options the closure holds
  dupes,      \* the closure's map of staged family files
  files,      \* the file set of the run: key -> document identity
  docs,       \* the document objects: identity -> properties
  input,      \* the file set and documents the plugin was called with
  todo,       \* the keys of Object.keys(files) not yet visited
  pc,         \* "created", "pass", "returned", "finished"
  doneCalls,  \* the arguments of the calls of done, in order
  hist        \* per document, what each visit of it computed

vars == <<options, dupes, files, docs, input, todo, pc, doneCalls, hist>>

\* permalinks(options) has returned the plugin
Init ==
  /\ options \in {normalize(raw) : raw \in RawOptions}
  /\ dupes = EmptyObject
  /\ files = EmptyObject
  /\ docs = NoProps
  /\ input = [files |-> EmptyObject, docs |-> NoProps]
  /\ todo = <<>>
  /\ pc = "created"
  /\ doneCalls = <<>>
  /\ hist = NoProps

\* permalinksPlugin(files, metalsmith, done) is called: setImmediate(done)
\* and the snapshot Object.keys(files)
Invoke ==
  /\ pc = "created"
  /\ \E list \in FileLists :
       \E given \in {[files |-> FilesOf(list), docs |-> DocsOf(list)]} :
         /\ files' = given.files
         /\ docs' = given.docs
         /\ input' = given
         /\ todo' = given.files.keys
         /\ hist' = [id \in DOMAIN given.docs |-> <<>>]
  /\ pc' = "pass"
  /\ UNCHANGED <<options, dupes, doneCalls>>

State == [files |-> files, docs |-> docs, dupes |-> dupes,
          doneCalls |-> doneCalls, hist |-> hist]

\* one call of the forEach callback
VisitFile ==
  /\ pc = "pass"
  /\ todo # <<>>
  /\ \E st \in {visitFile(State, Head(todo), options)} :
       /\ files' = st.files
       /\ docs' = st.docs
       /\ dupes' = st.dupes
       /\ doneCalls' = st.doneCalls
       /\ hist' = st.hist
  /\ todo' = Tail(todo)
  /\ UNCHANGED <<options, input, pc>>

\* the forEach over dupes run from inside the pass, before the last visit
MergeDupesDuringPass ==
  /\ pc = "pass"
  /\ files' = mergeDupes(files, dupes, 1)
  /\ pc' = IF todo = <<>> THEN "returned" ELSE "pass"
  /\ UNCHANGED <<options, dupes, docs, input, todo, doneCalls, hist>>

\* the forEach over dupes, after which the plugin returns
MergeDupes ==
  /\ pc = "pass"
  /\ todo = <<>>
  /\ files' = mergeDupes(files, dupes, 1)
  /\ pc' = "returned"
  /\ UNCHANGED <<options, dupes, docs, input, todo, doneCalls, hist>>

\* the setImmediate callback: done()
RunImmediate ==
  /\ pc = "returned"
  /\ doneCalls' = Append(doneCalls, Undefined)
  /\ pc' = "finished"
  /\ UNCHANGED <<options, dupes, files, docs, input, todo, hist>>

Next == Invoke \/ VisitFile \/ MergeDupes \/ RunImmediate

Spec == Init /\ [][Next]_vars

----------------------------------------------------------------------------
(* Vocabulary of the properties *)

UniqueOn == ~Falsy(Get(options, "unique"))

DuplicatesFailOn == ~Falsy(Get(options, "duplicatesFail"))

PassOver == pc \in {"returned", "finished"}

Visited(id) == id \in DOMAIN hist /\ hist[id] # <<>>

LastVisit(id) == hist[id][Len(hist[id])]

\* the keys under which a document is stored
KeysOf(id) == {k \in DOMAIN files.val : files.val[k] = id}

\* the candidate directory with the n-th disambiguation suffix, joined with
\* the index filename
TargetOf(candidate, n) ==
  PathJoin(<<candidate \o (IF n = 0 THEN <<>> ELSE <<"-" \o ToString(n)>>),
             IF Falsy(Get(options, "indexFile")) THEN <<"index", ".html">>
             ELSE options["indexFile"]>>)

\* the whole synchronous pass (lines 316-375) over the given files, visiting
\* the keys in the given order
permalinksPass(given, keys) ==
  LET start == [files |-> given.files, docs |-> given.docs, dupes |-> EmptyObject,
                doneCalls |-> <<>>, hist |-> [id \in DOMAIN given.docs |-> <<>>]]
      after[i \in 0..Len(keys)] ==
        IF i = 0 THEN start ELSE visitFile(after[i - 1], keys[i], options)
      last == after[Len(keys)]
  IN [files |-> mergeDupes(last.files, last.dupes, 1).val, docs |-> last.docs]

Orderings(s) ==
  {p \in [DOMAIN s -> Range(s)] : \A i, j \in DOMAIN s : i # j => p[i] # p[j]}

\* every occurrence of from in s replaced by to
RECURSIVE ReplaceAll(_, _, _)
ReplaceAll(s, from, to) ==
  LET i == IndexOf(s, from)
  IN IF from = <<>> \/ i = -1 THEN s
     ELSE SubSeq(s, 1, i) \o to \o ReplaceAll(Slice(s, i + Len(from)), from, to)

\* the contents with every old reference of moved replaced by its new path
RECURSIVE Relinked(_, _, _)
Relinked(content, moved, i) ==
  IF i > Len(moved.keys) THEN content
  ELSE Relinked(ReplaceAll(content, moved.keys[i], moved.val[moved.keys[i]]),
                moved, i + 1)

----------------------------------------------------------------------------
(* Properties *)

\* C1: for every visit of a document, each configuration field (pattern,
\* date, slug, relative) that the linkset selected for it defines has, in the
\* effective configuration, the value the selected linkset gives it.
C1_MatchedFieldsKept ==
  \A id \in DOMAIN hist : \A i \in DOMAIN hist[id] :
     \A f \in DOMAIN hist[id][i].matched :
        hist[id][i].linkset[f] = hist[id][i].matched[f]

\* C2: done is never called twice, and when the run is over it has been
\* called exactly once, with an error exactly when a clash occurred.
C2_DoneExactlyOnce ==
  /\ Len(doneCalls) <= 1
  /\ pc = "finished" =>
       /\ Len(doneCalls) = 1
       /\ (doneCalls[1] # Undefined) <=>
            (\E id \in DOMAIN hist : \E i \in DOMAIN hist[id] : hist[id][i].clash)

\* C3: with duplicatesFail, once a document has clashed, that document and
\* every document after it in processing order are still stored under their
\* original keys with their original properties, and no new key such as
\* 'undefined' was inserted for them.
C3_ClashAbortsPass ==
  \A id \in DOMAIN hist : \A i \in DOMAIN hist[id] :
     hist[id][i].clash =>
       /\ ~Has(files, <<"undefined">>)
       /\ \E pos \in DOMAIN input.files.keys :
            /\ input.files.keys[pos] = hist[id][i].file
            /\ \A j \in pos..Len(input.files.keys) :
                 LET k == input.files.keys[j]
                 IN /\ Has(files, k)
                    /\ files.val[k] = input.files.val[k]
                    /\ docs[files.val[k]] = input.docs[files.val[k]]

\* C4: after the run, every family file found for a relocated document is
\* stored in the directory of the document's final key, under its relative
\* key (documents that clashed under duplicatesFail left aside).
C4_FamilyBesideDocument ==
  PassOver =>
    \A id \in DOMAIN hist :
       (Visited(id) /\ ~LastVisit(id).clash) =>
         \A final \in KeysOf(id) : \A k \in DOMAIN LastVisit(id).fam.val :
            LET target == PathJoin(<<PathDirname(final), k>>)
            IN Has(files, target) /\ files.val[target] = LastVisit(id).fam.val[k]

\* C5: the contents of a relocated document are its contents before the
\* visit with every occurrence of each old reference (the relative key of a
\* family file) replaced by the new path of that family file.
C5_EveryReferenceRelinked ==
  \A id \in DOMAIN hist :
     Visited(id) =>
       docs[id]["contents"] = Relinked(LastVisit(id).before, LastVisit(id).moved, 1)

\* C6: with unique on and duplicatesFail off, a visit stores the document
\* under candidate-n/<indexFile> (no suffix for n = 0) for the smallest n
\* whose key is free in the file set at that moment; the key is not a key of
\* the file set before the commit and no other entry is changed by it.
C6_UniqueTargetIsFree ==
  [][ (pc = "pass" /\ todo # <<>> /\ UniqueOn /\ ~DuplicatesFailOn /\ hist' # hist) =>
        LET file == Head(todo)
            id == files.val[file]
            v == hist'[id][Len(hist'[id])]
            n == CHOOSE m \in 0..Cardinality(DOMAIN files.val) :
                   /\ ~Has(files, TargetOf(v.ppath, m))
                   /\ \A l \in 0..(m - 1) : Has(files, TargetOf(v.ppath, l))
        IN /\ v.out = TargetOf(v.ppath, n)
           /\ ~Has(files, v.out)
           /\ files'.val[v.out] = id
           /\ \A k \in DOMAIN files.val \ {file} : files'.val[k] = files.val[k]
    ]_vars

\* a document got a numeric suffix under unique
C6_Witness ==
  /\ UniqueOn /\ ~DuplicatesFailOn
  /\ \E id \in DOMAIN hist : \E i \in DOMAIN hist[id] :
       /\ hist[id][i].out = TargetOf(hist[id][i].ppath, 1)
       /\ id \in Range(files.val)

\* C7: no document is visited (relocated) more than once in a run.
C7_VisitedAtMostOnce ==
  \A id \in DOMAIN hist : Len(hist[id]) <= 1

\* C8: with unique on and duplicatesFail off, the file set and the documents
\* after the pass are those that any other processing order of the same
\* input yields.
C8_OrderIndependent ==
  (pc = "returned" /\ UniqueOn /\ ~DuplicatesFailOn) =>
    \A keys \in Orderings(input.files.keys) :
       permalinksPass(input, keys) = [files |-> files.val, docs |-> docs]

\* C9: during the pass, a key of the file set either is a key of the input
\* still holding its input document or holds a document that has been
\* relocated; no family file sits under a new key before the pass is over.
C9_FamilyStagedUntilPassOver ==
  pc = "pass" =>
    \A k \in DOMAIN files.val :
       \/ Has(input.files, k) /\ files.val[k] = input.files.val[k]
       \/ Visited(files.val[k])

\* family files are staged while a document is still to be visited
C9_Witness ==
  /\ pc = "pass"
  /\ \E i \in DOMAIN todo : html(todo[i]) /\ Has(files, todo[i])
  /\ \E rel \in DOMAIN dupes.val : ~Has(files, rel)

\* C10 as stated: the candidate path and the path field of a document with a
\* permalink override are the override value.
C10_OverrideIsPathField ==
  \A id \in DOMAIN hist :
     (Visited(id) /\ "permalink" \in DOMAIN docs[id]) =>
        /\ LastVisit(id).ppath = docs[id]["permalink"]
        /\ docs[id]["path"] = docs[id]["permalink"]

\* C10 amended: the candidate path is the override value, and the path field
\* is the override value with backslashes turned into slashes, or the empty
\* string when the override is '.'.
C10_OverrideNormalized ==
  \A id \in DOMAIN hist :
     (Visited(id) /\ "permalink" \in DOMAIN docs[id]) =>
        /\ LastVisit(id).ppath = docs[id]["permalink"]
        /\ docs[id]["path"] =
             IF docs[id]["permalink"] = <<".">> THEN <<>>
             ELSE [j \in DOMAIN docs[id]["permalink"] |->
                     IF docs[id]["permalink"][j] = "\\" THEN "/"
                     ELSE docs[id]["permalink"][j]]

\* a document with an override was relocated under a pattern that would
\* have given another path
C10_Witness ==
  \E id \in DOMAIN hist :
     /\ Visited(id)
     /\ "permalink" \in DOMAIN docs[id]
     /\ "title" \in DOMAIN docs[id]
     /\ ~Falsy(Get(LastVisit(id).linkset, "pattern"))
     /\ docs[id]["path"] = docs[id]["permalink"]
     /\ KeysOf(id) # {}

\* the fields the placeholders of a pattern name
Placeholders(pattern) ==
  {ParamName[pattern[i]] : i \in {j \in DOMAIN pattern : pattern[j] \in DOMAIN ParamName}}

\* the visit v of the document id had no pattern, or a pattern with a
\* placeholder whose field the document lacks or holds empty
NoPatternApplies(id, v) ==
  \/ Falsy(Get(v.linkset, "pattern"))
  \/ \E f \in Placeholders(v.linkset["pattern"]) :
       f \notin DOMAIN docs[id] \/ docs[id][f] = <<>>

\* C11: a document visited under a key D/index.html, without a permalink
\* override and with no pattern applying, has the candidate D and is
\* committed under D joined with the index filename, whatever unique and
\* duplicatesFail are.
C11_RelocatedStaysPut ==
  \A id \in DOMAIN hist : \A i \in DOMAIN hist[id] :
     (/\ PathBasename(hist[id][i].file, <<".html">>) = <<"index">>
      /\ "permalink" \notin DOMAIN docs[id]
      /\ NoPatternApplies(id, hist[id][i])) =>
        /\ hist[id][i].ppath = PathDirname(hist[id][i].file)
        /\ hist[id][i].out = TargetOf(PathDirname(hist[id][i].file), 0)

\* the index filename of the run
IndexFile ==
  IF Falsy(Get(options, "indexFile")) THEN <<"index", ".html">> ELSE options["indexFile"]

\* C12: at every moment a processed document without a permalink override
\* is stored only under keys whose last segment is the index filename,
\* whatever unique and duplicatesFail are.
C12_StoredUnderIndexFile ==
  \A id \in DOMAIN hist :
     (Visited(id) /\ "permalink" \notin DOMAIN docs[id]) =>
        \A k \in KeysOf(id) : LastSegment(k) = IndexFile

\* the pattern of the visit v of the document id with every placeholder
\* replaced by the formatted date or the slugged value of its field
Substituted(id, v) ==
  LET pattern == v.linkset["pattern"]
      value(f) == IF IsDate(docs[id][f])
                  THEN ApplyFormat(v.linkset["date"], docs[id][f])
                  ELSE slug(docs[id][f],
                            IF "slug" \in DOMAIN v.linkset THEN v.linkset["slug"]
                            ELSE NoProps)
  IN Concat([i \in DOMAIN pattern |->
               IF pattern[i] \in DOMAIN ParamName THEN value(ParamName[pattern[i]])
               ELSE <<pattern[i]>>])

\* C13 as stated, for every visit of a run whose pass is over: pattern
\* resolution gives null when there is no pattern or a placeholder names a
\* field that is absent or empty, and the candidate of a document without
\* override is then the fallback path of the key it is visited under; when
\* every placeholder has a value the candidate is the pattern with the
\* placeholders replaced.
C13_PatternOrFallback ==
  PassOver =>
  \A id \in DOMAIN hist : \A i \in DOMAIN hist[id] :
     /\ NoPatternApplies(id, hist[id][i]) =>
          replace(Get(hist[id][i].linkset, "pattern"), docs[id], hist[id][i].linkset) = Null
     /\ "permalink" \notin DOMAIN docs[id] =>
          hist[id][i].ppath =
            IF NoPatternApplies(id, hist[id][i]) THEN resolve(hist[id][i].file)
            ELSE Substituted(id, hist[id][i])

\* C13 amended: as above, but when the pattern with the placeholders
\* replaced is the empty string the candidate is the fallback path too.
C13_PatternOrFallbackUnlessEmpty ==
  PassOver =>
  \A id \in DOMAIN hist : \A i \in DOMAIN hist[id] :
     /\ NoPatternApplies(id, hist[id][i]) =>
          replace(Get(hist[id][i].linkset, "pattern"), docs[id], hist[id][i].linkset) = Null
     /\ "permalink" \notin DOMAIN docs[id] =>
          hist[id][i].ppath =
            IF NoPatternApplies(id, hist[id][i]) THEN resolve(hist[id][i].file)
            ELSE IF Substituted(id, hist[id][i]) = <<>> THEN resolve(hist[id][i].file)
            ELSE Substituted(id, hist[id][i])

\* a document whose placeholders all have a value was visited, the pattern
\* with the placeholders replaced is empty and the candidate is the
\* fallback path
C13_Witness ==
  \E id \in DOMAIN hist : \E i \in DOMAIN hist[id] :
     /\ PassOver
     /\ "permalink" \notin DOMAIN docs[id]
     /\ ~NoPatternApplies(id, hist[id][i])
     /\ Substituted(id, hist[id][i]) = <<>>
     /\ hist[id][i].ppath = resolve(hist[id][i].file)
     /\ hist[id][i].ppath # <<>>

\* the field of a document satisfies the expected value of a match bundle:
\* it is that value, or a string or sequence that contains it
Satisfies(data, key, expected) ==
  /\ key \in DOMAIN data
  /\ \/ data[key] = expected
     \/ /\ data[key] # <<>>
        /\ data[key][1] \notin {"#true", "#false", "#undefined", "#date", "#format"}
        /\ \E i \in 1..Len(data[key]) :
             /\ i + Len(expected) - 1 <= Len(data[key])
             /\ \A j \in 1..Len(expected) : data[key][i + j - 1] = expected[j]

\* the linkset the selector has to give for a document
Selected(data) ==
  LET linksets == options["linksets"]
      matching == {i \in DOMAIN linksets :
                     \A key \in DOMAIN linksets[i]["match"] :
                        Satisfies(data, key, linksets[i]["match"][key])}
      flagged == {i \in DOMAIN linksets :
                     "isDefault" \in DOMAIN linksets[i] /\ linksets[i]["isDefault"] = JSTrue}
  IN IF matching # {}
     THEN linksets[CHOOSE i \in matching : \A j \in matching : i <= j]
     ELSE IF flagged # {}
     THEN linksets[CHOOSE i \in flagged : \A j \in flagged : i <= j]
     ELSE options

\* C14: for every document of a run whose pass is over the selector gives
\* the first linkset, in declaration order, whose match fields are all
\* satisfied by the document, and the default linkset (the one flagged
\* isDefault, else the options) when there is none; every visit of the run
\* selected that linkset.
C14_FirstFullMatchSelected ==
  PassOver =>
    /\ \A id \in DOMAIN docs : findLinkset(docs[id], options) = Selected(docs[id])
    /\ \A id \in DOMAIN hist : \A i \in DOMAIN hist[id] :
          hist[id][i].matched = configOf(Selected(docs[id]))

\* one visited document satisfies every match field of two linksets and was
\* given the first, another satisfies one match field of a linkset but not
\* the other and was given the default
C14_Witness ==
  /\ PassOver
  /\ Len(options["linksets"]) = 2
  /\ \E id \in DOMAIN hist :
       /\ Visited(id)
       /\ \A n \in 1..2 : \A key \in DOMAIN options["linksets"][n]["match"] :
             Satisfies(docs[id], key, options["linksets"][n]["match"][key])
       /\ \E key \in DOMAIN options["linksets"][1]["match"] :
             docs[id][key] # options["linksets"][1]["match"][key]
       /\ LastVisit(id).matched = configOf(options["linksets"][1])
  /\ \E id \in DOMAIN hist :
       /\ Visited(id)
       /\ \E key \in DOMAIN options["linksets"][1]["match"] :
             Satisfies(docs[id], key, options["linksets"][1]["match"][key])
       /\ \E key \in DOMAIN options["linksets"][1]["match"] :
             ~Satisfies(docs[id], key, options["linksets"][1]["match"][key])
       /\ LastVisit(id).matched = configOf(options["linksets"][2])

\* C15: every call of done happens when the pass over the documents and the
\* merge of the staged family files are over, and once done has been called
\* the file set and the documents are not changed any more.
C15_DoneAfterSynchronousWork ==
  [][/\ doneCalls' # doneCalls =>
          (pc = "returned" /\ files' = files /\ docs' = docs)
     /\ doneCalls # <<>> => (files' = files /\ docs' = docs)]_vars

\* the position of a key in the order of the pass
Pos(file) == CHOOSE i \in DOMAIN input.files.keys : input.files.keys[i] = file

\* C16: with unique and duplicatesFail off, done is never called with an
\* error, every document is committed under its first target, occupied or
\* not, and when the pass is over a target key holds the document that was
\* committed under it last.
C16_LastWriterWins ==
  (~UniqueOn /\ ~DuplicatesFailOn) =>
    /\ \A n \in DOMAIN doneCalls : doneCalls[n] = Undefined
    /\ \A id \in DOMAIN hist : \A i \in DOMAIN hist[id] :
          hist[id][i].out = TargetOf(hist[id][i].ppath, 0)
    /\ PassOver =>
         \A id \in DOMAIN hist : \A i \in DOMAIN hist[id] :
            (\A other \in DOMAIN hist : \A j \in DOMAIN hist[other] :
                hist[other][j].out = hist[id][i].out =>
                   Pos(hist[other][j].file) <= Pos(hist[id][i].file)) =>
               /\ Has(files, hist[id][i].out)
               /\ files.val[hist[id][i].out] = id

\* C17: a document of the input whose key has no HTML extension or whose
\* permalink is false stays, during and after the run, under its key, with
\* the properties it came with (no path field, the same contents).
C17_SkippedUntouched ==
  \A k \in DOMAIN input.files.val :
     (~html(k) \/ Get(input.docs[input.files.val[k]], "permalink") = JSFalse) =>
        /\ Has(files, k)
        /\ files.val[k] = input.files.val[k]
        /\ docs[input.files.val[k]] = input.docs[input.files.val[k]]

\* C18: when the pass is over, every key a processed document is stored
\* under is its path field joined with the index filename (the bare index
\* filename when the path field is empty).  The statement is taken for the
\* runs with unique on and duplicatesFail off, where no clash is reported,
\* and for the documents without a permalink override, whose candidate
\* holds no backslash.
C18_PathFieldAgreesWithKey ==
  (PassOver /\ UniqueOn /\ ~DuplicatesFailOn) =>
    \A id \in DOMAIN hist :
       (Visited(id) /\ "permalink" \notin DOMAIN docs[id]) =>
          \A k \in KeysOf(id) : k = PathJoin(<<docs[id]["path"], IndexFile>>)

\* C19: with unique on and duplicatesFail off, every document of the input
\* is a value of the file set during and after the run, and no step
\* replaces the document an entry holds by another one.
C19_NoDocumentLost ==
  [][(UniqueOn /\ ~DuplicatesFailOn /\ pc # "created") =>
       /\ \A id \in DOMAIN input.docs : id \in Range(files'.val)
       /\ \A k \in DOMAIN files.val \cap DOMAIN files'.val : files'.val[k] = files.val[k]]_vars

\* the key a document had in the input
OriginalKey(id) == CHOOSE k \in DOMAIN input.files.val : input.files.val[k] = id

\* C20: a step removes no key from the file set but the source key of the
\* document it commits, and when the pass is over every family file that was
\* carried is stored under its original key and under its new key (taken for
\* the runs with duplicatesFail off, where no document is stored under the
\* key 'undefined').
C20_FamilyKeptUnderBothKeys ==
  /\ [][pc # "created" =>
          DOMAIN files.val \ DOMAIN files'.val \subseteq
            (IF todo = <<>> THEN {} ELSE {Head(todo)})]_vars
  /\ []((PassOver /\ ~DuplicatesFailOn) =>
          \A id \in DOMAIN hist : \A i \in DOMAIN hist[id] :
             \A f \in DOMAIN hist[id][i].fam.val :
                /\ Has(files, OriginalKey(hist[id][i].fam.val[f]))
                /\ files.val[OriginalKey(hist[id][i].fam.val[f])] = hist[id][i].fam.val[f]
                /\ Has(files, hist[id][i].moved.val[f])
                /\ files.val[hist[id][i].moved.val[f]] = hist[id][i].fam.val[f])

====
